---- MODULE Spec2Model ----
(***************************************************************************)
(* A model of sysml.system.Model (src/sysml/system.py): the element store, *)
(* the relationship store, keyed reads and writes, key generation and the  *)
(* validators.                                                             *)
(*                                                                         *)
(* A key is the tuple of segments that key.split('-') returns, so          *)
(* 'block-1' is <<"block", "1">>, 'bogus!!' is <<"bogus!!">> and 'Vehicle' *)
(* is <<"Vehicle">>.  A Python object is the pair <<type name, serial>>;   *)
(* relationship records are the objects of type "dict", their fields given *)
(* by RelOf.  An outcome is "ok" or the exception an operation raised,     *)
(* named after the raising expression.                                     *)
(***************************************************************************)
EXTENDS Integers, Sequences, FiniteSets, TLC

\* ------------------------------------------------------------------ bounds

\* The number of successful element insertions of one run (each draws one uuid).
MaxClock == 2

\* ------------------------------------------------------------ schema tables

\* Model._validElements, in the dictionary's order.
validElementKinds == <<"block", "requirement", "constraint", "package">>

\* Model._validElements[kind]: the class registered for the kind.
validElements(kind) ==
    CASE kind = "block" -> "Block"
      [] kind = "requirement" -> "Requirement"
      [] kind = "constraint" -> "ConstraintBlock"
      [] kind = "package" -> "Package"

\* Model._validElements.values()
validElementTypes == {validElements(validElementKinds[i]) : i \in DOMAIN validElementKinds}

\* Model._validRelationships.keys()
validRelationshipKinds ==
    {"containment", "inheritance", "association", "generalization",
     "partProperty", "valueProperty", "referenceProperty", "flowProperty"}

\* Model._validRelationships[kind][end], end one of "source", "target".
validRelationships(kind, end) == {"Block"}

\* ----------------------------------------------------------------- objects

\* type(obj): an object's runtime type never changes.
TypeOf(obj) == obj[1]

\* The objects a caller hands to the model: elements of registered types, an
\* object of an unregistered type, and relationship records.
Blocks == {<<"Block", 1>>, <<"Block", 2>>}
Elements == Blocks \cup {<<"Requirement", 1>>}
Relationships == {<<"dict", i>> : i \in 1..4}
Values == Elements \cup {<<"ConstraintBlock", 1>>, <<"Other", 1>>} \cup Relationships

\* The Package objects add_package constructs, one per successful call.
Packages == {<<"Package", i>> : i \in 1..MaxClock}

Objects == Values \cup Packages

\* The fields of the relationship records.  interned: whether the record's
\* relationshipType is the very string object of the schema table's key (a
\* literal is; a string built at run time is not), which is what `is` compares.
RelOf(rel) ==
    CASE rel[2] = 1 -> [relationshipType |-> "partProperty", interned |-> TRUE,
                        source |-> <<"block", "1">>, target |-> <<"block", "2">>]
      [] rel[2] = 2 -> [relationshipType |-> "partProperty", interned |-> TRUE,
                        source |-> <<"block", "1">>, target |-> <<"requirement", "1">>]
      [] rel[2] = 3 -> [relationshipType |-> "containment", interned |-> FALSE,
                        source |-> <<"requirement", "1">>, target |-> <<"block", "1">>]
      [] OTHER      -> [relationshipType |-> "bogusRel", interned |-> TRUE,
                        source |-> <<"block", "1">>, target |-> <<"block", "2">>]

\* -------------------------------------------------------------------- keys

\* str(n) for the sequence numbers key generation reaches.
Digits == <<"1", "2", "3", "4", "5", "6", "7", "8", "9">>

StrOf(n) == Digits[n]

\* Whether int(s) parses s, for the suffixes the keys here carry ('01' and
\* '1' both parse, to the same number, and are different keys).
IsIntLiteral(s) == s \in {"0", "01"} \cup {Digits[i] : i \in DOMAIN Digits}

\* validElement + "-" + str(id_no)
MakeKey(kind, n) == <<kind, StrOf(n)>>

\* The keys of the element-key pattern the callers write with.
ElementKeys ==
    { <<"block", "1">>, <<"block", "2">>, <<"block", "01">>, <<"requirement", "1">> }

\* The key of the relationship-key pattern the callers write with.
RelationshipKeys == { <<"partProperty", "1">> }

\* Keys of neither pattern: no dash, two dashes, a suffix that is no
\* integer, a name that is no kind.
BadKeys ==
    { <<"bogus!!">>, <<"block", "1", "2">>, <<"block", "x">>,
      <<"bogus", "1">>, <<"partProperty", "x">> }

\* The keys the callers read with.
ReadKeys ==
    { <<"block", "1">>, <<"requirement", "1">>, <<"partProperty", "1">>,
      <<"Vehicle">>, <<"bogus", "1">> }

\* The string labels add_package is called with ('Vehicle', 'block-2').
Labels == { <<"Vehicle">>, <<"block", "2">> }

\* ------------------------------------------------------------------- state

VARIABLES
    elements,       \* self._elements: key -> object
    relationships,  \* self._relationships: [set |-> the attribute exists, dict |-> key -> object]
    uuid,           \* obj.uuid of every object, 0 while the attribute is unset
    clock,          \* the number of uuids drawn so far (uuid.uuid1() never repeats)
    last            \* the last call: operation, arguments, outcome, value returned

vars == <<elements, relationships, uuid, clock, last>>

NoKey == <<>>
NoObj == <<"None", 0>>

\* keys: the keys the call generated, in order; result: the object a read returned.
Call(op, key, args, outcome, keys, result) ==
    [op |-> op, key |-> key, args |-> args, outcome |-> outcome,
     keys |-> keys, result |-> result]

\* The part of the state the insertion paths read and write.
Store == [elements |-> elements, relationships |-> relationships,
          uuid |-> uuid, clock |-> clock]

\* Model.__init__: _label and _elements are assigned; _relationships is not.
Init ==
    /\ elements = <<>>
    /\ relationships = [set |-> FALSE, dict |-> <<>>]
    /\ uuid = [o \in Objects |-> 0]
    /\ clock = 0
    /\ last = Call("init", NoKey, <<>>, "ok", <<>>, NoObj)

\* -------------------------------------------------------------- validators

\* Model._isValidElement
isValidElement(element) == TypeOf(element) \in validElementTypes

\* Model._isValidElementKey: "ok" with the truth value, or the ValueError of
\* the two-name unpacking or of int().
isValidElementKey(key) ==
    IF Len(key) # 2 THEN [outcome |-> "ValueError: unpack", value |-> FALSE]
    ELSE IF ~(\E i \in DOMAIN validElementKinds : validElementKinds[i] = key[1])
         THEN [outcome |-> "ok", value |-> FALSE]
    ELSE IF ~IsIntLiteral(key[2]) THEN [outcome |-> "ValueError: int()", value |-> FALSE]
    ELSE [outcome |-> "ok", value |-> TRUE]

\* Model._isValidRelationshipKey
isValidRelationshipKey(key) ==
    IF Len(key) # 2 THEN [outcome |-> "ValueError: unpack", value |-> FALSE]
    ELSE IF key[1] \notin validRelationshipKinds THEN [outcome |-> "ok", value |-> FALSE]
    ELSE IF ~IsIntLiteral(key[2]) THEN [outcome |-> "ValueError: int()", value |-> FALSE]
    ELSE [outcome |-> "ok", value |-> TRUE]

\* Model._isValidRelationship on a relationship record: the lookups of both
\* endpoints and of the kind's rule raise KeyError when they miss.
isValidRelationship(st, rel) ==
    LET r == RelOf(rel) IN
    IF r.source \notin DOMAIN st.elements \/ r.target \notin DOMAIN st.elements
       \/ r.relationshipType \notin validRelationshipKinds
    THEN [outcome |-> "KeyError", value |-> FALSE]
    ELSE [outcome |-> "ok",
          value |-> /\ TypeOf(st.elements[r.source])
                          \in validRelationships(r.relationshipType, "source")
                    /\ TypeOf(st.elements[r.target])
                          \in validRelationships(r.relationshipType, "target")]

\* ------------------------------------------------------------- the errors

\* ValueError(repr(key) + " is not a valid key. ...") of __setitem__.
InvalidKeyError == "ValueError: is not a valid key"

\* The same ValueError, as __getitem__ raises it.
KeyNotFoundError == "ValueError: is not a valid key"

\* TypeError(repr(element) + " is not a valid model element.")
TypeMismatchError == "TypeError: is not a valid model element"

\* TypeError(... + " does not exist in model.")
ReferentialIntegrityError == "TypeError: does not exist in model"

\* TypeError(... + " are not a valid source-target pair for " + ...)
SchemaViolationError == "TypeError: are not a valid source-target pair"

\* TypeError(label + " must be a string"), the error add_package constructs.
TypeInputError == "TypeError: must be a string"

\* TypeError(element + " is not a valid element."), the error _generateKey
\* constructs for a value of no registered kind.
UnknownKindError == "TypeError: is not a valid element"

\* --------------------------------------------------------- insertion paths

Raise(st, outcome) == [st |-> st, outcome |-> outcome]

\* _setElement storing the element before it validates it.
setElement_storeFirst(st, key, element) ==
    LET stored == [st EXCEPT !.elements = (key :> element) @@ st.elements]
    IN IF ~isValidElement(element)
       THEN Raise(stored, TypeMismatchError)
       ELSE [st |-> [stored EXCEPT !.uuid = [st.uuid EXCEPT ![element] = st.clock + 1],
                                   !.clock = st.clock + 1],
             outcome |-> "ok"]

\* _setElement with the validity test inverted.
setElement_inverted(st, key, element) ==
    IF isValidElement(element)
    THEN Raise(st, TypeMismatchError)
    ELSE [st |-> [st EXCEPT !.elements = (key :> element) @@ st.elements],
          outcome |-> "ok"]

\* _setElement taking the id from the size of the store instead of drawing one.
setElement_idFromSize(st, key, element) ==
    IF ~isValidElement(element)
    THEN Raise(st, TypeMismatchError)
    ELSE LET stored == (key :> element) @@ st.elements
         IN [st |-> [st EXCEPT !.elements = stored,
                               !.uuid = [st.uuid EXCEPT ![element] =
                                             Cardinality(DOMAIN stored)],
                               !.clock = st.clock + 1],
             outcome |-> "ok"]

\* _setElement keeping the value a key already has.
setElement_keepFirst(st, key, element) ==
    IF ~isValidElement(element)
    THEN Raise(st, TypeMismatchError)
    ELSE [st |-> [st EXCEPT !.elements = st.elements @@ (key :> element),
                            !.uuid = [st.uuid EXCEPT ![element] = st.clock + 1],
                            !.clock = st.clock + 1],
          outcome |-> "ok"]

\* Model._setElement with a key that is not None.
setElement(st, key, element) ==
    IF ~isValidElement(element)
    THEN Raise(st, TypeMismatchError)
    ELSE [st |-> [st EXCEPT !.elements = (key :> element) @@ st.elements,
                            !.uuid = [st.uuid EXCEPT ![element] = st.clock + 1],
                            !.clock = st.clock + 1],
          outcome |-> "ok"]

\* Model._setRelationship.  The messages of the first and the third raise
\* name `relationships`, which is not defined in the function: NameError.
setRelationship(st, key, relationship) ==
    IF TypeOf(relationship) # "dict"
    THEN Raise(st, "TypeError: not subscriptable")
    ELSE LET r == RelOf(relationship)
             valid == isValidRelationship(st, relationship)
         IN IF r.source \notin DOMAIN st.elements
            THEN Raise(st, "NameError: relationships")
            ELSE IF r.target \notin DOMAIN st.elements
            THEN Raise(st, ReferentialIntegrityError)
            ELSE IF valid.outcome # "ok" THEN Raise(st, valid.outcome)
            ELSE IF ~valid.value THEN Raise(st, "NameError: relationships")
            ELSE IF ~st.relationships.set
            THEN Raise(st, "AttributeError: _relationships")
            ELSE [st |-> [st EXCEPT !.relationships.dict =
                                        (key :> relationship) @@ st.relationships.dict],
                  outcome |-> "ok"]

\* Model.__setitem__
setitem(st, key, value) ==
    LET ek == isValidElementKey(key)
        rk == isValidRelationshipKey(key)
    IN IF ek.outcome # "ok" THEN Raise(st, ek.outcome)
       ELSE IF ek.value THEN setElement(st, key, value)
       ELSE IF rk.outcome # "ok" THEN Raise(st, rk.outcome)
       ELSE IF rk.value THEN setRelationship(st, key, value)
       ELSE Raise(st, InvalidKeyError)

\* ---------------------------------------------------------- key generation

\* The first kind, in the table's order, whose class the element is an
\* instance of (the registered classes do not derive from one another).
KindOf(element) ==
    validElementKinds[CHOOSE i \in DOMAIN validElementKinds :
        /\ validElements(validElementKinds[i]) = TypeOf(element)
        /\ \A j \in 1..(i - 1) : validElements(validElementKinds[j]) # TypeOf(element)]

\* Key generation that takes the store's size plus one instead of probing.
FirstFree_sizePlusOne(kind, maxId_no, store) == maxId_no

\* The first id_no of range(1, maxId_no + 1) whose key is not in the store,
\* 0 when the loop ends without returning.
FirstFree(kind, maxId_no, store) ==
    LET free == {n \in 1..maxId_no : MakeKey(kind, n) \notin DOMAIN store}
    IN IF free = {} THEN 0 ELSE CHOOSE n \in free : \A m \in free : n <= m

\* Model._generateKey(element, maxId_no): "ok" with the key, NoKey for the
\* None of a function that ends without returning.
generateKey(st, element, maxId_no) ==
    IF isValidElement(element)
    THEN LET n == FirstFree(KindOf(element), maxId_no, st.elements)
         IN [outcome |-> "ok",
             key |-> IF n = 0 THEN NoKey ELSE MakeKey(KindOf(element), n)]
    ELSE IF TypeOf(element) # "dict"
    THEN [outcome |-> "TypeError: not subscriptable", key |-> NoKey]
    ELSE LET valid == isValidRelationship(st, element)
             kind == RelOf(element).relationshipType
         IN IF valid.outcome # "ok" THEN [outcome |-> valid.outcome, key |-> NoKey]
            ELSE IF ~valid.value
            THEN [outcome |-> "TypeError: unsupported operand", key |-> NoKey]
            ELSE IF ~RelOf(element).interned \/ maxId_no < 1 THEN [outcome |-> "ok", key |-> NoKey]
            ELSE IF ~st.relationships.set
            THEN [outcome |-> "AttributeError: _relationships", key |-> NoKey]
            ELSE LET n == FirstFree(kind, maxId_no, st.relationships.dict)
                 IN [outcome |-> "ok",
                     key |-> IF n = 0 THEN NoKey ELSE MakeKey(kind, n)]

\* Model._setElement as the bulk paths call it: a key of None makes it call
\* _generateKey without maxId_no, a TypeError.
setElementOrNone(st, key, element) ==
    IF key = NoKey THEN Raise(st, "TypeError: missing argument")
    ELSE setElement(st, key, element)

\* Model.add_elements: the elements in order, stopping at the first that raises.
RECURSIVE add_elements(_, _, _)
add_elements(st, elementv, keys) ==
    IF elementv = <<>> THEN [st |-> st, outcome |-> "ok", keys |-> keys]
    ELSE LET gk == generateKey(st, Head(elementv),
                               Cardinality(DOMAIN st.elements) + 1)
             res == setElementOrNone(st, gk.key, Head(elementv))
         IN IF gk.outcome # "ok" THEN [st |-> st, outcome |-> gk.outcome, keys |-> keys]
            ELSE IF res.outcome # "ok"
            THEN [st |-> st, outcome |-> res.outcome, keys |-> keys]
            ELSE add_elements(res.st, Tail(elementv), Append(keys, gk.key))

\* Model.add_relationships: len(self._relationships) is read first.
RECURSIVE add_relationships(_, _, _)
add_relationships(st, relationshipv, keys) ==
    IF relationshipv = <<>> THEN [st |-> st, outcome |-> "ok", keys |-> keys]
    ELSE IF ~st.relationships.set
    THEN [st |-> st, outcome |-> "AttributeError: _relationships", keys |-> keys]
    ELSE LET gk == generateKey(st, Head(relationshipv),
                               Cardinality(DOMAIN st.relationships.dict) + 1)
             res == setRelationship(st, gk.key, Head(relationshipv))
         IN IF gk.outcome # "ok" THEN [st |-> st, outcome |-> gk.outcome, keys |-> keys]
            ELSE IF res.outcome # "ok"
            THEN [st |-> st, outcome |-> res.outcome, keys |-> keys]
            ELSE add_relationships(res.st, Tail(relationshipv), Append(keys, gk.key))

\* Package(label): the next Package object add_package constructs.
NewPackage(st) ==
    <<"Package", 1 + Cardinality({p \in Packages : st.uuid[p] # 0})>>

\* Model.add_package.  isStr: type(label) is str; otherwise label + "..." in
\* the raise is itself a TypeError.
add_package(st, label, isStr) ==
    IF isStr THEN setElement(st, label, NewPackage(st))
    ELSE Raise(st, "TypeError: unsupported operand")

\* An elements setter that replaces the store by the mapping it is given.
set_elements_rewrite(st, isDict, items) ==
    IF ~isDict THEN Raise(st, "TypeError: must be a dictionary")
    ELSE IF items = <<>> THEN [st |-> [st EXCEPT !.elements = <<>>], outcome |-> "ok"]
    ELSE Raise(st, "AttributeError: _setElements")

\* Model.elements (setter): isDict: type(elements) is dict; items: the
\* mapping's (key, value) pairs in order.  self._setElements does not exist.
set_elements(st, isDict, items) ==
    IF ~isDict THEN Raise(st, "TypeError: must be a dictionary")
    ELSE IF items = <<>> THEN Raise(st, "ok")
    ELSE Raise(st, "AttributeError: _setElements")

\* Model.relationships (setter)
RECURSIVE set_relationships(_, _, _)
set_relationships(st, isDict, items) ==
    IF ~isDict THEN Raise(st, "TypeError: must be a dictionary")
    ELSE IF items = <<>> THEN Raise(st, "ok")
    ELSE LET key == Head(items)[1]
             rk == isValidRelationshipKey(key)
             res == setRelationship(st, key, Head(items)[2])
         IN IF rk.outcome # "ok" THEN Raise(st, rk.outcome)
            ELSE IF ~rk.value THEN Raise(st, InvalidKeyError)
            ELSE IF res.outcome # "ok" THEN res
            ELSE set_relationships(res.st, isDict, Tail(items))

\* ----------------------------------------------------------------- actions

\* The call's effect.  A run draws at most MaxClock uuids.
Commit(res, call) ==
    /\ res.st.clock <= MaxClock
    /\ elements' = res.st.elements
    /\ relationships' = res.st.relationships
    /\ uuid' = res.st.uuid
    /\ clock' = res.st.clock
    /\ last' = call

\* The (key, value) pairs of the calls model[key] = value.
SetItemCalls ==
    ({<<"block", "1">>} \X (Elements \cup {<<"Other", 1>>, <<"dict", 1>>}))
    \cup ({<<"block", "2">>} \X Blocks)
    \cup ({<<"requirement", "1">>} \X {<<"Requirement", 1>>, <<"Block", 1>>})
    \cup ({<<"block", "01">>} \X {<<"Block", 2>>})
    \cup (RelationshipKeys \X (Relationships \cup {<<"Block", 1>>}))
    \cup (BadKeys \X {<<"Block", 1>>})
    \cup ({<<"bogus!!">>} \X {<<"Other", 1>>, <<"dict", 1>>})

\* model[key] = value
SetItem ==
    \E call \in SetItemCalls :
       LET key == call[1]
           value == call[2]
       IN
          LET res == setitem(Store, key, value)
          IN Commit(res, Call("setitem", key, <<value>>, res.outcome, <<>>, NoObj))

\* Model.__getitem__, as the call record of a read through the instance `op` names.
getitem(op, key) ==
    IF key \in DOMAIN elements
    THEN Call(op, key, <<>>, "ok", <<>>, elements[key])
    ELSE IF ~relationships.set
    THEN Call(op, key, <<>>, "AttributeError: _relationships", <<>>, NoObj)
    ELSE IF key \in DOMAIN relationships.dict
    THEN Call(op, key, <<>>, "ok", <<>>, relationships.dict[key])
    ELSE Call(op, key, <<>>, KeyNotFoundError, <<>>, NoObj)

\* model[key]
GetItem ==
    \E key \in ReadKeys :
       /\ last' = getitem("getitem", key)
       /\ UNCHANGED <<elements, relationships, uuid, clock>>

\* The argument lists of add_elements and of add_relationships.
ElementArgs ==
    { <<>> }
    \cup { <<v>> : v \in Elements \cup {<<"ConstraintBlock", 1>>, <<"Package", 1>>,
                                        <<"Other", 1>>, <<"dict", 1>>, <<"dict", 3>>} }
    \cup { << <<"Block", 1>>, <<"Block", 2>> >>, << <<"Block", 1>>, <<"Block", 1>> >>,
           << <<"Requirement", 1>>, <<"Block", 1>> >>,
           << <<"Block", 1>>, <<"Other", 1>> >>, << <<"Other", 1>>, <<"Block", 1>> >> }
RelationshipArgs ==
    { <<>>, << <<"dict", 1>> >>, << <<"dict", 4>> >>, << <<"dict", 1>>, <<"dict", 1>> >> }

\* The mappings assigned to model.elements / model.relationships.
Mappings ==
    { <<>>,
      << <<<<"block", "1">>, <<"Block", 1>>>> >>,
      << <<<<"partProperty", "1">>, <<"dict", 1>>>> >>,
      << <<<<"bogus!!">>, <<"dict", 1>>>> >>,
      << <<<<"block", "1">>, <<"dict", 1>>>> >>,
      << <<<<"partProperty", "x">>, <<"dict", 1>>>> >> }

\* model.add_elements(*elementv)
AddElements ==
    \E elementv \in ElementArgs :
       LET res == add_elements(Store, elementv, <<>>)
       IN Commit(res, Call("add_elements", NoKey, elementv, res.outcome,
                              res.keys, NoObj))

\* model.add_relationships(*relationshipv)
AddRelationships ==
    \E relationshipv \in RelationshipArgs :
       LET res == add_relationships(Store, relationshipv, <<>>)
       IN Commit(res, Call("add_relationships", NoKey, relationshipv, res.outcome,
                              res.keys, NoObj))

\* model.add_package(label)
AddPackage ==
    \E label \in Labels, isStr \in BOOLEAN :
          LET res == add_package(Store, label, isStr)
          IN Commit(res, Call("add_package", IF isStr THEN label ELSE NoKey, <<>>,
                              res.outcome, <<>>, NoObj))

\* model.elements = mapping
SetElements ==
    \E isDict \in BOOLEAN, items \in Mappings :
          LET res == set_elements(Store, isDict, IF isDict THEN items ELSE <<>>)
          IN Commit(res, Call("set_elements", NoKey, IF isDict THEN items ELSE <<>>,
                              res.outcome, <<>>, NoObj))

\* model.relationships = mapping
SetRelationships ==
    \E isDict \in BOOLEAN, items \in Mappings :
          LET res == set_relationships(Store, isDict, IF isDict THEN items ELSE <<>>)
          IN Commit(res, Call("set_relationships", NoKey, IF isDict THEN items ELSE <<>>,
                              res.outcome, <<>>, NoObj))

Next ==
    \/ SetItem
    \/ GetItem
    \/ AddElements
    \/ AddRelationships
    \/ AddPackage
    \/ SetElements
    \/ SetRelationships

Spec == Init /\ [][Next]_vars

\* other = Model(), a second instance constructed with no arguments next to
\* `model`. The default of __init__'s `elements` parameter is one dict, created
\* when the def statement runs, and __init__ binds self._elements to it: the
\* _elements of `other` is the dict the variable `elements` holds. Nothing is
\* ever inserted through `other`; other[key] reads it.
OtherGetItem ==
    \E key \in ReadKeys :
       /\ last' = getitem("other.getitem", key)
       /\ UNCHANGED <<elements, relationships, uuid, clock>>

NextTwoModels ==
    \/ Next
    \/ OtherGetItem

SpecTwoModels == Init /\ [][NextTwoModels]_vars

\* ------------------------------------------------------------------ claims

\* The shape '<name>-<digits>' of a key, name a registered kind of `kinds`.
HasPattern(key, kinds) ==
    /\ Len(key) = 2
    /\ key[1] \in kinds
    /\ IsIntLiteral(key[2])

ElementKindNames == {validElementKinds[i] : i \in DOMAIN validElementKinds}

\* The store part of the state: what an operation that fails must leave alone.
stores == <<elements, relationships, uuid>>

\* No operation of Model creates the _relationships attribute, so no
\* relationship is ever stored (C1 and C2 speak of stored relationships).
RelationshipStoreNeverCreated ==
    ~relationships.set /\ relationships.dict = <<>>

\* C1: every stored relationship's source and target are keys of the element
\* store.  It holds of every reachable state only because none holds a stored
\* relationship (RelationshipStoreNeverCreated).
C1_ReferentialIntegrity ==
    \A k \in DOMAIN relationships.dict :
       /\ RelOf(relationships.dict[k]).source \in DOMAIN elements
       /\ RelOf(relationships.dict[k]).target \in DOMAIN elements

\* C2: every stored relationship's endpoints hold elements of the types its
\* kind's rule allows.  It holds of every reachable state for the same reason.
C2_SchemaConformance ==
    \A k \in DOMAIN relationships.dict :
       LET r == RelOf(relationships.dict[k])
       IN /\ r.source \in DOMAIN elements
          /\ r.target \in DOMAIN elements
          /\ TypeOf(elements[r.source]) \in validRelationships(r.relationshipType, "source")
          /\ TypeOf(elements[r.target]) \in validRelationships(r.relationshipType, "target")

\* C3: every key of the element store is '<kind>-<integer>' with a registered
\* element kind, and the value stored under it has exactly the type registered
\* for that kind.
C3_ElementKeyType ==
    \A k \in DOMAIN elements :
       /\ HasPattern(k, ElementKindNames)
       /\ TypeOf(elements[k]) = validElements(k[1])

\* The call just made inserted one element or one relationship.
SingleInsertion ==
    \/ last.op \in {"setitem", "add_package"}
    \/ last.op \in {"add_elements", "add_relationships"} /\ Len(last.args) = 1

\* The entry the successful single insertion just made is in its store.
InsertedEntryStored ==
    CASE last.op = "setitem" ->
            IF HasPattern(last.key, ElementKindNames)
            THEN last.key \in DOMAIN elements /\ elements[last.key] = last.args[1]
            ELSE /\ last.key \in DOMAIN relationships.dict
                 /\ relationships.dict[last.key] = last.args[1]
      [] last.op = "add_package" ->
            /\ last.key \in DOMAIN elements
            /\ TypeOf(elements[last.key]) = "Package"
      [] last.op = "add_elements" ->
            /\ Len(last.keys) = 1
            /\ last.keys[1] \in DOMAIN elements
            /\ elements[last.keys[1]] = last.args[1]
      [] last.op = "add_relationships" ->
            /\ Len(last.keys) = 1
            /\ last.keys[1] \in DOMAIN relationships.dict
            /\ relationships.dict[last.keys[1]] = last.args[1]

\* C4: a single insertion either succeeds, and its entry is stored, or fails
\* with an error and leaves the element store, the relationship store and
\* every object's id as they were.
C4_SingleInsertionAtomic ==
    [][SingleInsertion' =>
          IF last'.outcome = "ok" THEN InsertedEntryStored' ELSE stores' = stores]_vars

\* A rejected attempt to overwrite a stored element.
C4_Witness ==
    /\ last.op = "setitem"
    /\ last.outcome = TypeMismatchError
    /\ last.key \in DOMAIN elements
    /\ elements[last.key] # last.args[1]

\* The call just made inserted a relationship record under a relationship key
\* (model['<relKind>-<n>'] = r) or without one (add_relationships(r)).
RelationshipInsertion ==
    \/ /\ last.op = "setitem"
       /\ HasPattern(last.key, validRelationshipKinds)
       /\ TypeOf(last.args[1]) = "dict"
    \/ /\ last.op = "add_relationships"
       /\ Len(last.args) = 1

\* C5: inserting a relationship whose source key, or whose target key, is
\* absent from the element store fails with the referential-integrity error,
\* and endpoints that exist with disallowed types fail with another error.
C5_ReferentialIntegrityError ==
    [][RelationshipInsertion' =>
          LET r == RelOf(last'.args[1]) IN
          /\ (r.source \notin DOMAIN elements \/ r.target \notin DOMAIN elements)
                => last'.outcome = ReferentialIntegrityError
          /\ (r.source \in DOMAIN elements /\ r.target \in DOMAIN elements)
                => last'.outcome # ReferentialIntegrityError]_vars

\* C6: with both endpoints in the element store, inserting a relationship of
\* a registered kind succeeds, and the relationship is readable under its key,
\* when the endpoints' types are the ones the kind's rule allows, and fails
\* with the schema-violation error when they are not.
C6_SchemaEnforcement ==
    [][(/\ RelationshipInsertion'
        /\ RelOf(last'.args[1]).relationshipType \in validRelationshipKinds
        /\ RelOf(last'.args[1]).source \in DOMAIN elements
        /\ RelOf(last'.args[1]).target \in DOMAIN elements) =>
          LET r == RelOf(last'.args[1])
              key == IF last'.op = "setitem" THEN last'.key ELSE last'.keys[1]
          IN
          IF /\ TypeOf(elements[r.source]) \in validRelationships(r.relationshipType, "source")
             /\ TypeOf(elements[r.target]) \in validRelationships(r.relationshipType, "target")
          THEN /\ last'.outcome = "ok"
               /\ key \in DOMAIN relationships'.dict
               /\ relationships'.dict[key] = last'.args[1]
          ELSE last'.outcome = SchemaViolationError]_vars

\* C7 as stated: under any key, inserting a value whose type is not a
\* registered element type fails with the type-mismatch error.
C7_KindEnforcementAnyKey ==
    (last.op = "setitem" /\ TypeOf(last.args[1]) \notin validElementTypes)
        => last.outcome = TypeMismatchError

\* C7, amended: under a key of the element-key pattern, inserting a value
\* whose type is not a registered element type fails with the type-mismatch
\* error; and under no key is such a value ever in the element store.
C7_KindEnforcement ==
    /\ (/\ last.op = "setitem"
        /\ HasPattern(last.key, ElementKindNames)
        /\ TypeOf(last.args[1]) \notin validElementTypes)
           => last.outcome = TypeMismatchError
    /\ \A k \in DOMAIN elements : TypeOf(elements[k]) \in validElementTypes

\* An object of an unregistered type was refused under an element key while
\* the store holds elements.
C7_Witness ==
    /\ last.op = "setitem"
    /\ HasPattern(last.key, ElementKindNames)
    /\ TypeOf(last.args[1]) = "Other"
    /\ last.outcome = TypeMismatchError
    /\ elements # <<>>

\* C8: model[key] = value with a key that is not '<name>-<digits>', name a
\* registered element or relationship kind, fails with the invalid-key error
\* whatever the value, and leaves both stores unchanged.
C8_KeyPatternEnforcement ==
    [][(/\ last'.op = "setitem"
        /\ ~HasPattern(last'.key, ElementKindNames \cup validRelationshipKinds)) =>
          /\ last'.outcome = InvalidKeyError
          /\ stores' = stores]_vars

\* C9: model[key] returns the element stored under key, otherwise the
\* relationship stored under key, otherwise fails with the key-not-found
\* error.
C9_KeyedRead ==
    last.op = "getitem" =>
       IF last.key \in DOMAIN elements
       THEN last.outcome = "ok" /\ last.result = elements[last.key]
       ELSE IF last.key \in DOMAIN relationships.dict
       THEN last.outcome = "ok" /\ last.result = relationships.dict[last.key]
       ELSE last.outcome = KeyNotFoundError

\* The element store just before the i-th element of an add_elements call
\* that generated `keys`, given the store before the call.
KeysBefore(before, keys, i) == before \cup {keys[j] : j \in 1..(i - 1)}

\* C10: add_elements stores each registered element under '<kind>-<n>', kind
\* the kind registered for its type and n the smallest positive integer whose
\* key is not yet in the element store; no entry is overwritten and the store
\* grows by one per accepted element.
C10_LowestFreeKey ==
    [][(/\ last'.op = "add_elements"
        /\ \A i \in DOMAIN last'.args : TypeOf(last'.args[i]) \in validElementTypes) =>
          LET keys == last'.keys
              args == last'.args
          IN /\ last'.outcome = "ok"
             /\ Len(keys) = Len(args)
             /\ \A i \in DOMAIN keys :
                   LET taken == KeysBefore(DOMAIN elements, keys, i)
                   IN /\ Len(keys[i]) = 2
                      /\ validElements(keys[i][1]) = TypeOf(args[i])
                      /\ \E n \in DOMAIN Digits :
                            /\ keys[i] = <<keys[i][1], StrOf(n)>>
                            /\ \A m \in 1..(n - 1) : <<keys[i][1], StrOf(m)>> \in taken
                      /\ keys[i] \notin taken
             /\ DOMAIN elements' = KeysBefore(DOMAIN elements, keys, Len(keys) + 1)
             /\ Cardinality(DOMAIN elements') = Cardinality(DOMAIN elements) + Len(args)
             /\ \A k \in DOMAIN elements : elements'[k] = elements[k]
             /\ \A i \in DOMAIN keys : elements'[keys[i]] = args[i]]_vars

\* add_elements(b1, b2) on an empty model: 'block-1' and 'block-2'.
C10_Witness ==
    /\ last.op = "add_elements"
    /\ last.args = << <<"Block", 1>>, <<"Block", 2>> >>
    /\ last.keys = << <<"block", "1">>, <<"block", "2">> >>
    /\ DOMAIN elements = {<<"block", "1">>, <<"block", "2">>}

\* C11 as stated: no two entries of the element store carry the same id.
C11_NoTwoEntriesShareAnId ==
    \A k1, k2 \in DOMAIN elements :
       k1 # k2 => uuid[elements[k1]] # uuid[elements[k2]]

\* C11, amended: every id an insertion assigns differs from every id assigned
\* before it (it exceeds the count of ids drawn, which bounds every id an
\* object carries), every stored element carries an id, and two entries of
\* the element store carry the same id only when they hold the same object.
C11_IdUniqueness ==
    [][(uuid' # uuid \/ elements' # elements) =>
          /\ \A o \in Objects : uuid[o] <= clock
          /\ \A o \in Objects : uuid'[o] # uuid[o] => uuid'[o] > clock
          /\ \A k \in DOMAIN elements' : uuid'[elements'[k]] # 0
          /\ \A k1, k2 \in DOMAIN elements' :
                uuid'[elements'[k1]] = uuid'[elements'[k2]]
                   => elements'[k1] = elements'[k2]]_vars

\* One object stored under two keys next to nothing else: inserted twice.
C11_Witness ==
    /\ Cardinality(DOMAIN elements) = 2
    /\ \A k \in DOMAIN elements : elements[k] = <<"Block", 1>>
    /\ uuid[<<"Block", 1>>] = 2

\* C12: model[key] = b2 over a stored b1 leaves one entry under the key, b2,
\* the other entries and the size of the store as they were, and gives b2 a
\* fresh id that differs from the id b1 was given.
C12_OverwriteSemantics ==
    [][(/\ last'.op = "setitem"
        /\ last'.key \in DOMAIN elements
        /\ isValidElement(last'.args[1])
        /\ elements[last'.key] # last'.args[1]) =>
          LET b1 == elements[last'.key]
              b2 == last'.args[1]
          IN /\ last'.outcome = "ok"
             /\ DOMAIN elements' = DOMAIN elements
             /\ elements'[last'.key] = b2
             /\ \A k \in DOMAIN elements \ {last'.key} : elements'[k] = elements[k]
             /\ uuid'[b2] > clock
             /\ uuid'[b2] # uuid[b1]
             /\ uuid'[b1] = uuid[b1]]_vars

\* model['block-1'] = b1 and then model['block-1'] = b2.
C12_Witness ==
    /\ last.op = "setitem" /\ last.outcome = "ok"
    /\ last.key = <<"block", "1">> /\ last.args = << <<"Block", 2>> >>
    /\ DOMAIN elements = {<<"block", "1">>}
    /\ elements[<<"block", "1">>] = <<"Block", 2>>
    /\ uuid[<<"Block", 1>>] = 1 /\ uuid[<<"Block", 2>>] = 2

\* C13: `other` is constructed with no arguments and nothing is inserted into
\* it, so its stores stay as constructed, empty, whatever is inserted into
\* `model`: no key is readable through `other`.
C13_InstanceIsolation ==
    last.op = "other.getitem" => last.outcome # "ok"

\* C14: an element's id does not change after it was first assigned, also when
\* the stored element is inserted again under the same or another key.
C14_IdAssignedOnce ==
    [][\A o \in Objects : uuid[o] # 0 => uuid'[o] = uuid[o]]_vars

\* C15: add_package with a string label stores a Package with a non-null id
\* under the key equal to the label; with a label that is not a string it fails
\* with the type-input error and leaves the element store unchanged.
C15_AddPackage ==
    [][last'.op = "add_package" =>
          IF last'.key # NoKey
          THEN /\ last'.outcome = "ok"
               /\ last'.key \in DOMAIN elements'
               /\ TypeOf(elements'[last'.key]) = "Package"
               /\ uuid'[elements'[last'.key]] # 0
          ELSE /\ last'.outcome = TypeInputError
               /\ elements' = elements]_vars

\* C16: assigning a one-entry mapping to model.elements or to
\* model.relationships validates and inserts the entry exactly as
\* model[key] = value would, and an accepted entry is readable under its key.
C16_BulkSetters ==
    [][(/\ last'.op \in {"set_elements", "set_relationships"}
        /\ Len(last'.args) = 1) =>
          LET key == last'.args[1][1]
              single == setitem(Store, key, last'.args[1][2])
          IN /\ last'.outcome = single.outcome
             /\ elements' = single.st.elements
             /\ relationships' = single.st.relationships
             /\ uuid' = single.st.uuid
             /\ single.outcome = "ok" =>
                   key \in DOMAIN elements' \cup DOMAIN relationships'.dict]_vars

\* C17: add_relationships(r), with r of a registered kind and both endpoints
\* stored with types the kind allows, stores r under '<relationshipType>-<n>'
\* for the lowest n whose key the relationship store does not hold, returns
\* nothing else, and leaves the element store unchanged.
C17_AddRelationships ==
    [][(/\ last'.op = "add_relationships"
        /\ Len(last'.args) = 1
        /\ RelOf(last'.args[1]).relationshipType \in validRelationshipKinds
        /\ isValidRelationship(Store, last'.args[1]).value) =>
          LET kind == RelOf(last'.args[1]).relationshipType
              used == DOMAIN relationships.dict
          IN /\ last'.outcome = "ok"
             /\ Len(last'.keys) = 1
             /\ \E n \in 1..(Cardinality(used) + 1) :
                   /\ last'.keys[1] = MakeKey(kind, n)
                   /\ MakeKey(kind, n) \notin used
                   /\ \A m \in 1..(n - 1) : MakeKey(kind, m) \in used
             /\ DOMAIN relationships'.dict = used \cup {last'.keys[1]}
             /\ relationships'.dict[last'.keys[1]] = last'.args[1]
             /\ elements' = elements]_vars

\* C18: add_elements(x) with x of no registered element type, and
\* add_relationships(r) with r of no registered relationship kind, fail with
\* the unknown-kind error of key generation and store nothing.
C18_UnknownKind ==
    [][(\/ /\ last'.op = "add_elements"
           /\ Len(last'.args) = 1
           /\ TypeOf(last'.args[1]) \notin validElementTypes \cup {"dict"}
        \/ /\ last'.op = "add_relationships"
           /\ Len(last'.args) = 1
           /\ RelOf(last'.args[1]).relationshipType \notin validRelationshipKinds) =>
          /\ last'.outcome = UnknownKindError
          /\ stores' = stores]_vars

\* C19: no key is present in both the element store and the relationship
\* store.  It holds of every reachable state only because the relationship
\* store never holds a key (RelationshipStoreNeverCreated).
C19_DisjointKeyNamespaces ==
    DOMAIN elements \cap DOMAIN relationships.dict = {}

====
